---- MODULE Spec2Model ----
(***************************************************************************)
(* A model of the two request handlers of quizrush-backend:                *)
(*   - the OCR route      (src/unnamed/part_000): POST / with a file       *)
(*   - the grading route  (src/routes/essayRoutes.js): POST /grade-essay   *)
(* One behaviour of the model follows one incoming request from its        *)
(* arrival to the settling of the handler's promise.  JavaScript strings   *)
(* that come from the request or from a remote service are sequences of    *)
(* one-character strings, so that split, trim, replace and JSON.parse are  *)
(* computed character by character as the code computes them.              *)
(***************************************************************************)
EXTENDS Integers, Sequences, FiniteSets, TLC

VARIABLES
    pc,             \* position of the handler: idle, pdf, submit, poll, llm, done, rejected
    route,          \* which handler took the request: none, ocr, essay
    file,           \* req.file of the OCR route
    ext,            \* const ext (part_000 line 55)
    textLayer,      \* pdfData.text (part_000 line 72)
    extractedText,  \* let extractedText (part_000 line 65)
    dedupInput,     \* extractedText as it reaches line 98 (history)
    inPdfTry,       \* whether processImageWithOCR runs inside the try of line 77
    contentType,    \* mimeType argument of processImageWithOCR
    i,              \* loop counter of the poll loop (part_000 line 30)
    ocrCalls,       \* requests sent to the OCR service, with their outcomes
    ocrOutcome,     \* how processImageWithOCR ended
    body,           \* req.body of the grading route
    llmCalls,       \* calls of openai.chat.completions.create, with outcomes
    rawResponse,    \* let rawResponse (essayRoutes.js line 107), as last assigned
    gradingResult,  \* let gradingResult (essayRoutes.js line 117): JSON.parse's result
    responses       \* HTTP responses sent for the request

vars == <<pc, route, file, ext, textLayer, extractedText, dedupInput, inPdfTry, contentType,
          i, ocrCalls, ocrOutcome, body, llmCalls, rawResponse, gradingResult,
          responses>>

ocrVars == <<file, ext, textLayer, extractedText, dedupInput, inPdfTry, contentType, i,
             ocrCalls, ocrOutcome>>

essayVars == <<body, llmCalls, rawResponse, gradingResult>>

(***************************************************************************)
(* Bounds of the model.                                                    *)
(***************************************************************************)
MaxParts == 3       \* dot-separated parts of an uploaded file's name
MaxTextLen == 2     \* characters of a PDF text layer
MaxPages == 2       \* pages of an OCR result

(***************************************************************************)
(* JavaScript string primitives on sequences of characters.                *)
(***************************************************************************)
SP == " "
NL == "\n"
DOT == "."

IsSpace(c) == c \in {SP, NL}

\* the positions of s that hold no white space
Inked(s) == { k \in 1..Len(s) : ~IsSpace(s[k]) }

Min(S) == CHOOSE k \in S : \A j \in S : k <= j
Max(S) == CHOOSE k \in S : \A j \in S : j <= k

TrimStart(s) ==
    IF Inked(s) = {} THEN <<>> ELSE SubSeq(s, Min(Inked(s)), Len(s))

TrimEnd(s) ==
    IF Inked(s) = {} THEN <<>> ELSE SubSeq(s, 1, Max(Inked(s)))

\* String.prototype.trim
Trim(s) == TrimEnd(TrimStart(s))

\* index of the first c in s, 0 when there is none
IndexOf(s, c) ==
    IF \E k \in 1..Len(s) : s[k] = c
    THEN CHOOSE k \in 1..Len(s) : s[k] = c /\ \A j \in 1..(k - 1) : s[j] # c
    ELSE 0

RECURSIVE Split(_, _)
\* String.prototype.split with a one-character separator: never empty
Split(s, c) ==
    LET k == IndexOf(s, c)
    IN  IF k = 0 THEN <<s>>
        ELSE <<SubSeq(s, 1, k - 1)>> \o Split(SubSeq(s, k + 1, Len(s)), c)

RECURSIVE Join(_, _)
\* Array.prototype.join
Join(parts, sep) ==
    IF parts = <<>> THEN <<>>
    ELSE IF Len(parts) = 1 THEN parts[1]
    ELSE parts[1] \o sep \o Join(Tail(parts), sep)

LowerChar(c) ==
    CASE c = "P" -> "p"
      [] c = "N" -> "n"
      [] c = "G" -> "g"
      [] c = "D" -> "d"
      [] c = "F" -> "f"
      [] c = "J" -> "j"
      [] c = "S" -> "s"
      [] c = "O" -> "o"
      [] OTHER -> c

\* String.prototype.toLowerCase
ToLowerCase(s) == [k \in 1..Len(s) |-> LowerChar(s[k])]

\* Array.prototype.filter
Filter(seq, Keep(_)) == SelectSeq(seq, Keep)

RECURSIVE UniqueAcc(_, _)
UniqueAcc(seq, acc) ==
    IF seq = <<>> THEN acc
    ELSE UniqueAcc(Tail(seq),
                   IF \E k \in 1..Len(acc) : acc[k] = Head(seq)
                   THEN acc ELSE Append(acc, Head(seq)))

\* [...new Set(seq)]: the first occurrence of each element, in insertion order
Unique(seq) == UniqueAcc(seq, <<>>)

\* a message that is a literal of the code, or a text that came from outside
Lit(m) == [lit |-> m, txt |-> <<>>]
Txt(s) == [lit |-> "", txt |-> s]
NoText == Lit("")

(***************************************************************************)
(* JavaScript values of a request body or of a parsed JSON text, one       *)
(* record shape for all of them: t is the type, n a number, s a string,    *)
(* o the entries of an object in insertion order.                          *)
(***************************************************************************)
JUndefined == [t |-> "undefined", n |-> 0, s |-> <<>>, o |-> <<>>]
JNull == [t |-> "null", n |-> 0, s |-> <<>>, o |-> <<>>]
JBool(b) == [t |-> IF b THEN "true" ELSE "false", n |-> 0, s |-> <<>>, o |-> <<>>]
JNum(k) == [t |-> "number", n |-> k, s |-> <<>>, o |-> <<>>]
JStr(str) == [t |-> "string", n |-> 0, s |-> str, o |-> <<>>]
JObj(entries) == [t |-> "object", n |-> 0, s |-> <<>>, o |-> entries]

\* JavaScript truthiness (the operand of ! and of ||)
Truthy(v) ==
    CASE v.t = "undefined" -> FALSE
      [] v.t = "null" -> FALSE
      [] v.t = "false" -> FALSE
      [] v.t = "number" -> v.n # 0
      [] v.t = "string" -> v.s # <<>>
      [] OTHER -> TRUE

(***************************************************************************)
(* HTTP responses: res.status(status).json(...).  A success of the OCR     *)
(* route carries text, a success of the grading route carries result.      *)
(***************************************************************************)
ErrorResponse(status, error, details) ==
    [status |-> status, error |-> error, details |-> details,
     text |-> <<>>, result |-> JUndefined]

TextResponse(text) ==
    [status |-> 200, error |-> "", details |-> NoText,
     text |-> text, result |-> JUndefined]

ResultResponse(result) ==
    [status |-> 200, error |-> "", details |-> NoText,
     text |-> <<>>, result |-> result]

(***************************************************************************)
(* Errors thrown inside a handler: error.message and, for an error of the  *)
(* HTTP client that holds a response, error.response.data.                 *)
(***************************************************************************)
Error(message) == [message |-> message, data |-> NoText]
NoError == Error("")

\* what axios.post and axios.get reject with
AxiosErrors ==
    { Error("Network Error"),
      [message |-> "Request failed with status code 401",
       data |-> Lit("upstream error body")] }

\* error.response?.data || error.message  (part_000 line 122)
ErrorDetails(err) ==
    IF err.data # NoText THEN err.data ELSE Lit(err.message)

(***************************************************************************)
(* The OCR route: its inputs.                                              *)
(***************************************************************************)
SeqsUpTo(S, n) == UNION { [1..k -> S] : k \in 0..n }

PartSet ==
    { <<>>, <<"p", "d", "f">>, <<"P", "n", "G">>, <<"J", "P", "G">>,
      <<"j", "p", "e", "g">>, <<"g", "i", "f">> }

\* names of up to MaxParts parts joined by dots: "pdf", ".PnG", "gif.pdf", ...
FileNames ==
    { Join(p, <<DOT>>) : p \in UNION { [1..k -> PartSet] : k \in 1..MaxParts } }

FewNames ==
    { <<"g", "i", "f", ".", "p", "d", "f">>, <<"a", ".", "P", "n", "G">>,
      <<"a", ".", "g", "i", "f">> }

MimeTypes == {"image/png", "image/jpeg"}
FewMimeTypes == {"image/png"}

TextAlphabet == {"a", "b", SP, NL}

\* what the text-layer extraction returns for a PDF
TextLayers == SeqsUpTo(TextAlphabet, MaxTextLen)
FewTextLayers == { <<>>, <<"a">> }

\* the lines of one page of an OCR result
PageSet ==
    { <<>>, << <<"a">> >>, << <<SP>> >>, << <<"a">>, <<"b">> >> }

\* analyzeResult.pages of a poll that reports "succeeded"
OcrResults == SeqsUpTo(PageSet, MaxPages)
FewOcrResults == { << << <<"b">> >> >> }

NoFile == [present |-> FALSE, originalname |-> <<>>, mimetype |-> ""]

Upload(name, mime) == [present |-> TRUE, originalname |-> name, mimetype |-> mime]

(***************************************************************************)
(* The OCR route: file type gate (part_000 lines 55-62).                   *)
(***************************************************************************)
Pop(seq) == seq[Len(seq)]

\* FileExt taking the part after the first dot instead of the last
FileExtAfterFirstDot(name) ==
    LET parts == Split(name, DOT)
    IN  ToLowerCase(parts[IF Len(parts) > 1 THEN 2 ELSE 1])

\* file.originalname.split('.').pop().toLowerCase()
FileExt(name) == ToLowerCase(Pop(Split(name, DOT)))

PDF == <<"p", "d", "f">>

supportedExtensions ==
    << <<"j", "p", "g">>, <<"j", "p", "e", "g">>, <<"p", "n", "g">>, PDF >>

\* Array.prototype.includes
Includes(seq, x) == \E k \in 1..Len(seq) : seq[k] = x

(***************************************************************************)
(* processImageWithOCR (part_000 lines 11-49) ends by returning a text or  *)
(* by throwing.                                                            *)
(***************************************************************************)
MaxPolls == 15

Returned(text) == [kind |-> "text", text |-> text, err |-> NoError]
Threw(err) == [kind |-> "throw", text |-> <<>>, err |-> err]
NotRun == [kind |-> "none", text |-> <<>>, err |-> NoError]

\* one request to the OCR service: its content type or URL, and the answer
OcrCall(method, arg, status, pages) ==
    [method |-> method, arg |-> arg, status |-> status, pages |-> pages]

\* LoopContinues with the bound off by one
LoopContinuesOffByOne(k) == k <= MaxPolls

\* for (let i = 0; i < 15; i++)  (line 30)
LoopContinues(k) == k < MaxPolls

RECURSIVE Flatten(_)
\* the lines of all pages, in page order then line order (lines 37-42)
Flatten(pages) ==
    IF pages = <<>> THEN <<>> ELSE Head(pages) \o Flatten(Tail(pages))

\* lines.join('\n')  (line 43)
OcrText(pages) == Join(Flatten(pages), <<NL>>)

(***************************************************************************)
(* The rest of the OCR route once processImageWithOCR has ended.           *)
(***************************************************************************)
NotBlank(l) == Trim(l) # <<>>

\* lines 81-85 and the catch of lines 86-89
Combine(layerText, outcome) ==
    IF outcome.kind = "text" /\ outcome.text # <<>> /\ NotBlank(outcome.text)
    THEN layerText \o <<NL, NL>> \o outcome.text
    ELSE layerText

\* DedupLines without the filter of blank lines
DedupLinesUnfiltered(text) == Unique(Split(text, NL))

\* [...new Set(extractedText.split('\n').filter(l => l.trim()))]  (line 98)
DedupLines(text) == Unique(Filter(Split(text, NL), NotBlank))

\* lines 98-99
Dedup(text) == Join(DedupLines(text), <<NL>>)

\* lines 91-102: the PDF branch after the inner try
PdfResponse(combined) ==
    IF combined = <<>> \/ Trim(combined) = <<>>
    THEN ErrorResponse(400,
        "No text found in PDF. The PDF may be empty or contain unsupported content.",
        NoText)
    ELSE TextResponse(Dedup(combined))

\* lines 107-123: the image branch after processImageWithOCR
ImageResponse(outcome) ==
    IF outcome.kind = "throw"
    THEN ErrorResponse(500, "Text extraction failed", ErrorDetails(outcome.err))
    ELSE IF outcome.text = <<>> \/ Trim(outcome.text) = <<>>
    THEN ErrorResponse(400,
        "No text found in image. Please ensure the image contains clear, readable text.",
        NoText)
    ELSE TextResponse(outcome.text)

\* Conclude without the inner try of lines 77-89: an OCR failure reaches the
\* catch of line 118 in the PDF branch too
ConcludeWithoutInnerTry(outcome) ==
    /\ ocrOutcome' = outcome
    /\ pc' = "done"
    /\ IF inPdfTry /\ outcome.kind = "text"
       THEN LET combined == Combine(extractedText, outcome)
            IN  /\ dedupInput' = combined
                /\ extractedText' =
                       IF combined = <<>> \/ Trim(combined) = <<>>
                       THEN combined ELSE Dedup(combined)
                /\ responses' = Append(responses, PdfResponse(combined))
       ELSE /\ dedupInput' = dedupInput
            /\ extractedText' =
                   IF outcome.kind = "text" THEN outcome.text ELSE extractedText
            /\ responses' = Append(responses, ImageResponse(outcome))

\* the handler from the end of processImageWithOCR to its response
Conclude(outcome) ==
    /\ ocrOutcome' = outcome
    /\ pc' = "done"
    /\ IF inPdfTry
       THEN LET combined == Combine(extractedText, outcome)
            IN  /\ dedupInput' = combined
                /\ extractedText' =
                       IF combined = <<>> \/ Trim(combined) = <<>>
                       THEN combined ELSE Dedup(combined)
                /\ responses' = Append(responses, PdfResponse(combined))
       ELSE /\ dedupInput' = dedupInput
            /\ extractedText' =
                   IF outcome.kind = "text" THEN outcome.text ELSE extractedText
            /\ responses' = Append(responses, ImageResponse(outcome))

(***************************************************************************)
(* The OCR route: actions.                                                 *)
(***************************************************************************)
\* router.post('/') up to its first await (lines 51-72, 105-107)
OcrReceive(names, mimes) ==
    /\ pc = "idle"
    /\ route' = "ocr"
    /\ \E f \in {NoFile} \cup { Upload(nm, m) : nm \in names, m \in mimes } :
        /\ file' = f
        /\ IF ~f.present
           THEN /\ responses' = Append(responses,
                                    ErrorResponse(400, "No file uploaded", NoText))
                /\ pc' = "done"
                /\ UNCHANGED <<ext, inPdfTry, contentType>>
           ELSE LET e == FileExt(f.originalname)
                IN  /\ ext' = e
                    /\ IF ~Includes(supportedExtensions, e)
                       THEN /\ responses' = Append(responses,
                                  ErrorResponse(400,
                                      "Only .jpg, .jpeg, .png images or .pdf documents are supported",
                                      NoText))
                            /\ pc' = "done"
                            /\ UNCHANGED <<inPdfTry, contentType>>
                       ELSE IF e = PDF
                       THEN /\ pc' = "pdf"
                            /\ UNCHANGED <<responses, inPdfTry, contentType>>
                       ELSE /\ pc' = "submit"
                            /\ inPdfTry' = FALSE
                            /\ contentType' = f.mimetype
                            /\ UNCHANGED responses
    /\ UNCHANGED <<textLayer, extractedText, dedupInput, i, ocrCalls, ocrOutcome>>
    /\ UNCHANGED essayVars

\* await pdf(file.buffer) and lines 73-79, or the catch of line 118
PdfParse(texts) ==
    /\ pc = "pdf"
    /\ \/ \E t \in texts :
            /\ textLayer' = t
            /\ extractedText' = t
            /\ inPdfTry' = TRUE
            /\ contentType' = "application/pdf"
            /\ pc' = "submit"
            /\ UNCHANGED responses
       \/ /\ responses' = Append(responses,
                ErrorResponse(500, "Text extraction failed",
                              ErrorDetails(Error("Invalid PDF structure"))))
          /\ pc' = "done"
          /\ UNCHANGED <<textLayer, extractedText, inPdfTry, contentType>>
    /\ UNCHANGED <<route, file, ext, dedupInput, i, ocrCalls, ocrOutcome>>
    /\ UNCHANGED essayVars

\* OcrSubmit sending the submission again when it fails
OcrSubmitWithRetry ==
    /\ pc = "submit"
    /\ \/ \E err \in AxiosErrors :
            /\ ocrCalls' = Append(ocrCalls, OcrCall("POST", contentType, "error", <<>>))
            /\ UNCHANGED <<pc, i, extractedText, dedupInput, ocrOutcome, responses>>
       \/ /\ ocrCalls' = Append(ocrCalls, OcrCall("POST", contentType, "nolocation", <<>>))
          /\ Conclude(Threw(Error("Azure did not return operation-location")))
          /\ UNCHANGED i
       \/ /\ ocrCalls' = Append(ocrCalls, OcrCall("POST", contentType, "accepted", <<>>))
          /\ pc' = "poll"
          /\ i' = 0
          /\ UNCHANGED <<extractedText, dedupInput, ocrOutcome, responses>>
    /\ UNCHANGED <<route, file, ext, textLayer, inPdfTry, contentType>>
    /\ UNCHANGED essayVars

\* await axios.post(...) and lines 24-27
OcrSubmit ==
    /\ pc = "submit"
    /\ \/ \E err \in AxiosErrors :
            /\ ocrCalls' = Append(ocrCalls, OcrCall("POST", contentType, "error", <<>>))
            /\ Conclude(Threw(err))
            /\ UNCHANGED i
       \/ /\ ocrCalls' = Append(ocrCalls, OcrCall("POST", contentType, "nolocation", <<>>))
          /\ Conclude(Threw(Error("Azure did not return operation-location")))
          /\ UNCHANGED i
       \/ /\ ocrCalls' = Append(ocrCalls, OcrCall("POST", contentType, "accepted", <<>>))
          /\ pc' = "poll"
          /\ i' = 0
          /\ UNCHANGED <<extractedText, dedupInput, ocrOutcome, responses>>
    /\ UNCHANGED <<route, file, ext, textLayer, inPdfTry, contentType>>
    /\ UNCHANGED essayVars

\* one turn of the poll loop: the wait, await axios.get(...), lines 36-48.
\* The service answers as its protocol says: a status, and with "succeeded"
\* an analyzeResult with pages of lines; any other status but "failed" is
\* "running" here.
OcrPoll(results) ==
    /\ pc = "poll"
    /\ LoopContinues(i)
    /\ \/ \E err \in AxiosErrors :
            /\ ocrCalls' = Append(ocrCalls, OcrCall("GET", "operation-location", "error", <<>>))
            /\ Conclude(Threw(err))
            /\ UNCHANGED i
       \/ \E pages \in results :
            /\ ocrCalls' = Append(ocrCalls,
                                  OcrCall("GET", "operation-location", "succeeded", pages))
            /\ Conclude(Returned(OcrText(pages)))
            /\ UNCHANGED i
       \/ /\ ocrCalls' = Append(ocrCalls, OcrCall("GET", "operation-location", "failed", <<>>))
          /\ Conclude(Threw(Error("Azure OCR failed")))
          /\ UNCHANGED i
       \/ /\ ocrCalls' = Append(ocrCalls, OcrCall("GET", "operation-location", "running", <<>>))
          /\ i' = i + 1
          /\ IF LoopContinues(i + 1)
             THEN UNCHANGED <<pc, extractedText, dedupInput, ocrOutcome, responses>>
             ELSE Conclude(Threw(Error("OCR timeout")))
    /\ UNCHANGED <<route, file, ext, textLayer, inPdfTry, contentType>>
    /\ UNCHANGED essayVars


(***************************************************************************)
(* JSON.parse on the texts the model feeds it: objects, strings without    *)
(* escapes, integers, null, true, false, and white space between tokens.   *)
(* A parser returns ok, the value v and the position p after it.           *)
(***************************************************************************)
QUOTE == "\""
Digits == <<"0", "1", "2", "3", "4", "5", "6", "7", "8", "9">>

IsDigit(c) == \E k \in 1..10 : Digits[k] = c
DigitVal(c) == (CHOOSE k \in 1..10 : Digits[k] = c) - 1

Parsed(v, p) == [ok |-> TRUE, v |-> v, p |-> p]
ParseFail == [ok |-> FALSE, v |-> JUndefined, p |-> 0]

\* the first position from p on that holds no white space, Len(s) + 1 if none
SkipWs(s, p) ==
    LET rest == { k \in Inked(s) : k >= p }
    IN  IF rest = {} THEN Len(s) + 1 ELSE Min(rest)

\* whether w occurs in s at position p
Match(s, p, w) == p + Len(w) - 1 <= Len(s) /\ SubSeq(s, p, p + Len(w) - 1) = w

RECURSIVE ScanDigits(_, _, _)
\* the digits from p on: the number read so far and the position after them
ScanDigits(s, p, acc) ==
    IF p <= Len(s) /\ IsDigit(s[p])
    THEN ScanDigits(s, p + 1, 10 * acc + DigitVal(s[p]))
    ELSE [n |-> acc, p |-> p]

\* -? (0 | [1-9][0-9]*)
ParseNumber(s, p) ==
    LET neg == p <= Len(s) /\ s[p] = "-"
        q == IF neg THEN p + 1 ELSE p
    IN  IF q > Len(s) \/ ~IsDigit(s[q]) THEN ParseFail
        ELSE IF s[q] = "0" THEN Parsed(JNum(0), q + 1)
        ELSE LET d == ScanDigits(s, q, 0)
             IN  Parsed(JNum(IF neg THEN 0 - d.n ELSE d.n), d.p)

\* a quoted string; a raw line break inside it is an error
ParseString(s, p) ==
    IF p > Len(s) \/ s[p] # QUOTE THEN ParseFail
    ELSE LET k == IndexOf(SubSeq(s, p + 1, Len(s)), QUOTE)
             str == SubSeq(s, p + 1, p + k - 1)
         IN  IF k = 0 \/ IndexOf(str, NL) # 0 THEN ParseFail
             ELSE Parsed(JStr(str), p + k + 1)

\* obj[key] = value: a repeated key keeps its place and takes the new value
PutEntry(entries, key, value) ==
    IF \E k \in 1..Len(entries) : entries[k].k = key
    THEN [k \in 1..Len(entries) |->
            IF entries[k].k = key THEN [k |-> key, v |-> value] ELSE entries[k]]
    ELSE Append(entries, [k |-> key, v |-> value])

RECURSIVE ParseValue(_, _)
RECURSIVE ParseMembers(_, _, _)

\* the members of an object from p on, p at the quote of a key
ParseMembers(s, p, entries) ==
    LET key == ParseString(s, p)
    IN  IF ~key.ok THEN ParseFail
        ELSE LET c == SkipWs(s, key.p)
             IN  IF c > Len(s) \/ s[c] # ":" THEN ParseFail
                 ELSE LET val == ParseValue(s, SkipWs(s, c + 1))
                      IN  IF ~val.ok THEN ParseFail
                          ELSE LET e == PutEntry(entries, key.v.s, val.v)
                                   n == SkipWs(s, val.p)
                               IN  IF n > Len(s) THEN ParseFail
                                   ELSE IF s[n] = "}" THEN Parsed(JObj(e), n + 1)
                                   ELSE IF s[n] = ","
                                   THEN ParseMembers(s, SkipWs(s, n + 1), e)
                                   ELSE ParseFail

ParseValue(s, p) ==
    IF p > Len(s) THEN ParseFail
    ELSE IF s[p] = "{"
    THEN LET q == SkipWs(s, p + 1)
         IN  IF q <= Len(s) /\ s[q] = "}" THEN Parsed(JObj(<<>>), q + 1)
             ELSE ParseMembers(s, q, <<>>)
    ELSE IF s[p] = QUOTE THEN ParseString(s, p)
    ELSE IF Match(s, p, <<"n", "u", "l", "l">>) THEN Parsed(JNull, p + 4)
    ELSE IF Match(s, p, <<"t", "r", "u", "e">>) THEN Parsed(JBool(TRUE), p + 4)
    ELSE IF Match(s, p, <<"f", "a", "l", "s", "e">>) THEN Parsed(JBool(FALSE), p + 5)
    ELSE ParseNumber(s, p)

\* JSON.parse(text): a value with nothing but white space around it
ParseJSON(text) ==
    LET r == ParseValue(text, SkipWs(text, 1))
    IN  IF r.ok /\ SkipWs(text, r.p) = Len(text) + 1 THEN Parsed(r.v, r.p)
        ELSE ParseFail

(***************************************************************************)
(* The cleanup of the reply (essayRoutes.js lines 107-114).                *)
(***************************************************************************)
\* the grave accent U+0060, which a TLA+ string literal cannot hold
BT == "<U+0060>"
\* the marker of a fenced code block: three grave accents
FENCE == <<BT, BT, BT>>
JSONWORD == <<"j", "s", "o", "n">>

Drop(s, n) == SubSeq(s, n + 1, Len(s))

\* the position of the first occurrence of w in s, 0 when there is none
Search(s, w) ==
    LET hits == { k \in 1..Len(s) : Match(s, k, w) }
    IN  IF hits = {} THEN 0 ELSE Min(hits)

RECURSIVE ReplaceFenceLang(_)
\* .replace(/FENCE(json)?/gi, ''): leftmost matches, the optional group greedy
ReplaceFenceLang(s) ==
    LET k == Search(s, FENCE)
        r == Drop(s, k + 2)
    IN  IF k = 0 THEN s
        ELSE SubSeq(s, 1, k - 1) \o
             ReplaceFenceLang(IF Len(r) >= 4 /\ ToLowerCase(SubSeq(r, 1, 4)) = JSONWORD
                              THEN Drop(r, 4) ELSE r)

RECURSIVE ReplaceFence(_)
\* .replace(/FENCE/g, '')
ReplaceFence(s) ==
    LET k == Search(s, FENCE)
    IN  IF k = 0 THEN s
        ELSE SubSeq(s, 1, k - 1) \o ReplaceFence(Drop(s, k + 2))

\* rawResponse after line 114, from message.content
Clean(content) == Trim(ReplaceFence(ReplaceFenceLang(Trim(content))))


(***************************************************************************)
(* The grading route: its inputs.                                          *)
(***************************************************************************)
SCORE == <<"s", "c", "o", "r", "e">>
FEEDBACK == <<"f", "e", "e", "d", "b", "a", "c", "k">>
BREAKDOWN == <<"b", "r", "e", "a", "k", "d", "o", "w", "n">>
MAXKEY == <<"m", "a", "x">>
COMMENT == <<"c", "o", "m", "m", "e", "n", "t">>
OK == <<"o", "k">>

Entry(key, value) == [k |-> key, v |-> value]

Questions == { JUndefined, JStr(<<>>), JStr(<<"q">>) }

Answers ==
    { JUndefined, JNull, JStr(<<>>), JStr(<<SP>>), JStr(<<NL, SP>>),
      JStr(<<"a">>), JStr(<<SP, "a">>), JNum(5), JNum(0), JBool(TRUE) }

Rubrics ==
    { JUndefined, JNull,
      JObj(<<Entry(<<"c">>, JStr(<<"d">>)), Entry(<<"e">>, JStr(<<"f">>))>>) }

MaxScores == { JUndefined, JNum(4) }

BloomLevels == { JUndefined, JStr(<<"a">>) }

\* req.body after express.json()
Bodies ==
    [question : Questions, answer : Answers, rubric : Rubrics,
     max_score : MaxScores, bloom_level : BloomLevels]

FewBodies ==
    [question : {JUndefined, JStr(<<"q">>)},
     answer : {JStr(<<"a">>), JStr(<<SP>>), JNum(5)},
     rubric : {JUndefined, JNull}, max_score : {JUndefined},
     bloom_level : {JUndefined}]

EmptyBody ==
    [question |-> JUndefined, answer |-> JUndefined, rubric |-> JUndefined,
     max_score |-> JUndefined, bloom_level |-> JUndefined]

RECURSIVE NatText(_)
\* the decimal digits of a natural number
NatText(n) ==
    IF n < 10 THEN <<Digits[n + 1]>> ELSE NatText(n \div 10) \o <<Digits[(n % 10) + 1]>>

RECURSIVE Stringify(_)
\* the JSON text of a value, as the text-generation service may write it
Stringify(v) ==
    CASE v.t = "number" -> IF v.n < 0 THEN <<"-">> \o NatText(0 - v.n) ELSE NatText(v.n)
      [] v.t = "string" -> <<QUOTE>> \o v.s \o <<QUOTE>>
      [] v.t = "object" ->
            <<"{">> \o
            Join([k \in 1..Len(v.o) |->
                    <<QUOTE>> \o v.o[k].k \o <<QUOTE, ":">> \o Stringify(v.o[k].v)],
                 <<",">>)
            \o <<"}">>
      [] v.t = "true" -> <<"t", "r", "u", "e">>
      [] v.t = "false" -> <<"f", "a", "l", "s", "e">>
      [] OTHER -> <<"n", "u", "l", "l">>

\* one entry, or none when the value is left out
Field(key, v) == IF v.t = "undefined" THEN <<>> ELSE <<Entry(key, v)>>

Criterion(score) ==
    JObj(<<Entry(<<"c">>,
                 JObj(<<Entry(SCORE, JNum(score)), Entry(MAXKEY, JNum(5)),
                        Entry(COMMENT, JStr(OK))>>))>>)

\* grading results the text-generation service may write
ReplyScores == { JNum(7), JNum(99), JStr(<<"7">>) }
ReplyFeedbacks == { JUndefined, JStr(<<>>), JStr(OK), JStr(FENCE \o JSONWORD \o OK) }
ReplyBreakdowns == { JUndefined, Criterion(3), Criterion(-1) }

GradingValues ==
    { JObj(Field(SCORE, sc) \o Field(FEEDBACK, fb) \o Field(BREAKDOWN, bd)) :
        sc \in ReplyScores, fb \in ReplyFeedbacks, bd \in ReplyBreakdowns }

\* other texts it may write
OtherTexts ==
    { <<>>, <<"n", "o">>, <<"n", "u", "l", "l">>, <<"7">>, <<"{">>,
      <<"{", QUOTE, "a", NL, QUOTE, ":", "1", "}">> }

PayloadTexts == { Stringify(v) : v \in GradingValues } \cup OtherTexts

FenceWrappers == {"fence", "fence json", "fence JSON"}
Wrappers == {"bare", "padded"} \cup FenceWrappers

\* the reply: the payload as it is, or inside a fenced code block
Wrap(w, payload) ==
    CASE w = "fence" -> FENCE \o <<NL>> \o payload \o <<NL>> \o FENCE
      [] w = "fence json" -> FENCE \o JSONWORD \o <<NL>> \o payload \o <<NL>> \o FENCE
      [] w = "fence JSON" ->
            FENCE \o <<"J", "S", "O", "N", NL>> \o payload \o <<NL>> \o FENCE
      [] w = "padded" -> <<NL>> \o payload \o <<SP>>
      [] OTHER -> payload

FewPayloadTexts ==
    { <<"n", "o">>, <<"n", "u", "l", "l">>, <<"7">>,
      Stringify(JObj(<<Entry(SCORE, JNum(7)), Entry(FEEDBACK, JStr(OK)),
                       Entry(BREAKDOWN, Criterion(3))>>)) }

(***************************************************************************)
(* The grading route: validation and prompt (essayRoutes.js lines 18-85).  *)
(***************************************************************************)
DefaultMaxScore == 10
DefaultCriteria == 4

\* a destructuring default applies to undefined alone
OrDefault(v, d) == IF v.t = "undefined" THEN d ELSE v

\* Validate without the check of a blank answer
ValidateWithoutTrim(question, answer) ==
    IF ~Truthy(question) \/ ~Truthy(answer) THEN "missing"
    ELSE IF answer.t # "string" THEN "TypeError"
    ELSE "ok"

\* lines 27-37: what the checks before the try do with question and answer
Validate(question, answer) ==
    IF ~Truthy(question) \/ ~Truthy(answer) THEN "missing"
    ELSE IF answer.t # "string" THEN "TypeError"
    ELSE IF Trim(answer.s) = <<>> THEN "blank"
    ELSE "ok"

\* Object.keys(rubric)
Keys(obj) == [k \in 1..Len(obj.o) |-> obj.o[k].k]

\* Object.keys(rubric).length || 4  (line 46)
NumCriteria(rubric) == IF Len(rubric.o) # 0 THEN Len(rubric.o) ELSE DefaultCriteria

\* maxPerCriterion.toFixed(1), in tenths
ToFixed1(num, den) == (20 * num + den) \div (2 * den)

\* what the prompt of lines 50-85 is built from
Prompt(b) ==
    LET rubric == OrDefault(b.rubric, JObj(<<>>))
        max_score == OrDefault(b.max_score, JNum(DefaultMaxScore))
    IN  [question |-> b.question.s, answer |-> b.answer.s,
         bloom_level |-> OrDefault(b.bloom_level, JStr(<<>>)).s,
         max_score |-> max_score.n,
         criteria |-> Keys(rubric),
         maxPerCriterion |-> ToFixed1(max_score.n, NumCriteria(rubric))]

LlmCall(prompt, status, wrapper, payload, content) ==
    [prompt |-> prompt, status |-> status, wrapper |-> wrapper,
     payload |-> payload, content |-> content]

(***************************************************************************)
(* The grading route: the reply (essayRoutes.js lines 107-149).            *)
(***************************************************************************)
\* obj[key]: undefined when obj is no object or has no such key
Get(obj, key) ==
    IF obj.t = "object" /\ \E k \in 1..Len(obj.o) : obj.o[k].k = key
    THEN (obj.o[CHOOSE k \in 1..Len(obj.o) : obj.o[k].k = key]).v
    ELSE JUndefined

\* lines 130-134, negated
ShapeOk(g) ==
    /\ Get(g, SCORE).t = "number"
    /\ Truthy(Get(g, FEEDBACK))
    /\ Truthy(Get(g, BREAKDOWN))

\* the catch of lines 143-149
EssayFailure(err) == ErrorResponse(500, "Essay grading failed.", Lit(err.message))

\* ParseFailureResponse attaching the parser's message instead of the text
ParseFailureResponseWithMessage(cleaned) ==
    ErrorResponse(500, "Failed to parse AI response.",
                  Lit("Unexpected token in JSON"))

\* lines 123-126
ParseFailureResponse(cleaned) ==
    ErrorResponse(500, "Failed to parse AI response.", Txt(cleaned))

\* lines 116-142, from the cleaned text and JSON.parse's result
GradeResponse(cleaned, parsed) ==
    IF ~parsed.ok THEN ParseFailureResponse(cleaned)
    ELSE IF parsed.v.t = "null"
    THEN EssayFailure(Error("Cannot read properties of null (reading 'score')"))
    ELSE IF ~ShapeOk(parsed.v)
    THEN ErrorResponse(500, "Invalid grading response structure from AI.", NoText)
    ELSE ResultResponse(parsed.v)

(***************************************************************************)
(* The grading route: actions.                                             *)
(***************************************************************************)
\* router.post('/grade-essay') up to its await (lines 14-105)
EssayReceive(bodies) ==
    /\ pc = "idle"
    /\ route' = "essay"
    /\ \E b \in bodies :
        /\ body' = b
        /\ LET check == Validate(b.question, b.answer)
           IN  IF check = "missing"
               THEN /\ responses' = Append(responses,
                          ErrorResponse(400,
                              "Missing required fields: question and answer are required.",
                              NoText))
                    /\ pc' = "done"
                    /\ UNCHANGED llmCalls
               ELSE IF check = "TypeError"
               \* answer.trim is not a function, thrown outside the try: the
               \* handler's promise rejects, and the framework either drops the
               \* rejection (no response) or hands it to its error handler
               THEN /\ pc' = "rejected"
                    /\ \E handled \in BOOLEAN :
                         responses' =
                            IF handled
                            THEN Append(responses,
                                   ErrorResponse(500, "Internal Server Error", NoText))
                            ELSE responses
                    /\ UNCHANGED llmCalls
               ELSE IF check = "blank"
               THEN /\ responses' = Append(responses,
                          ErrorResponse(400, "Answer cannot be empty.", NoText))
                    /\ pc' = "done"
                    /\ UNCHANGED llmCalls
               ELSE IF b.rubric.t = "null"
               \* Object.entries(null) throws inside the try (line 41)
               THEN /\ responses' = Append(responses,
                          EssayFailure(Error("Cannot convert undefined or null to object")))
                    /\ pc' = "done"
                    /\ UNCHANGED llmCalls
               ELSE /\ llmCalls' = Append(llmCalls,
                          LlmCall(Prompt(b), "pending", "", <<>>, <<>>))
                    /\ pc' = "llm"
                    /\ UNCHANGED responses
    /\ UNCHANGED <<rawResponse, gradingResult>>
    /\ UNCHANGED ocrVars

\* the await of line 90 ends, and lines 107-149
LlmReply(wrappers, payloads) ==
    /\ pc = "llm"
    /\ LET call == llmCalls[Len(llmCalls)]
       IN  \/ \* the call throws
              /\ llmCalls' = [llmCalls EXCEPT ![Len(llmCalls)].status = "threw"]
              /\ responses' = Append(responses,
                     EssayFailure(Error("429 You exceeded your current quota")))
              /\ UNCHANGED <<rawResponse, gradingResult>>
           \/ \* message.content is null
              /\ llmCalls' = [llmCalls EXCEPT ![Len(llmCalls)].status = "null content"]
              /\ responses' = Append(responses,
                     EssayFailure(Error("Cannot read properties of null (reading 'trim')")))
              /\ UNCHANGED <<rawResponse, gradingResult>>
           \/ \E w \in wrappers, payload \in payloads :
                LET content == Wrap(w, payload)
                    cleaned == Clean(content)
                    parsed == ParseJSON(cleaned)
                IN  /\ llmCalls' = [llmCalls EXCEPT ![Len(llmCalls)] =
                           LlmCall(call.prompt, "replied", w, payload, content)]
                    /\ rawResponse' = cleaned
                    /\ gradingResult' = [ok |-> parsed.ok, v |-> parsed.v]
                    /\ responses' = Append(responses, GradeResponse(cleaned, parsed))
    /\ pc' = "done"
    /\ UNCHANGED <<route, body>>
    /\ UNCHANGED ocrVars

(***************************************************************************)
(* Specifications.  Each behaviour is one request.  Spec draws the PDF     *)
(* texts and OCR results from the wide sets, SpecUpload the file names,    *)
(* SpecGrade the request bodies and replies of the grading route.          *)
(***************************************************************************)
Init ==
    /\ pc = "idle"
    /\ route = "none"
    /\ file = NoFile
    /\ ext = <<>>
    /\ textLayer = <<>>
    /\ extractedText = <<>>
    /\ dedupInput = <<>>
    /\ inPdfTry = FALSE
    /\ contentType = ""
    /\ i = 0
    /\ ocrCalls = <<>>
    /\ ocrOutcome = NotRun
    /\ body = EmptyBody
    /\ llmCalls = <<>>
    /\ rawResponse = <<>>
    /\ gradingResult = [ok |-> FALSE, v |-> JUndefined]
    /\ responses = <<>>

Next ==
    \/ OcrReceive(FewNames, FewMimeTypes)
    \/ PdfParse(TextLayers)
    \/ OcrSubmit
    \/ OcrPoll(OcrResults)
    \/ EssayReceive(FewBodies)
    \/ LlmReply({"bare", "fence json"}, FewPayloadTexts)

Spec == Init /\ [][Next]_vars

NextUpload ==
    \/ OcrReceive(FileNames, MimeTypes)
    \/ PdfParse(FewTextLayers)
    \/ OcrSubmit
    \/ OcrPoll(FewOcrResults)
    \/ EssayReceive(FewBodies)
    \/ LlmReply({"bare", "fence json"}, FewPayloadTexts)

SpecUpload == Init /\ [][NextUpload]_vars

NextGrade ==
    \/ OcrReceive(FewNames, FewMimeTypes)
    \/ PdfParse(FewTextLayers)
    \/ OcrSubmit
    \/ OcrPoll(FewOcrResults)
    \/ EssayReceive(Bodies)
    \/ LlmReply(Wrappers, PayloadTexts)

SpecGrade == Init /\ [][NextGrade]_vars


(***************************************************************************)
(* Properties.                                                             *)
(***************************************************************************)
\* the characters after the last dot of a name, the whole name if it has none
Suffix(name) ==
    LET dots == { k \in 1..Len(name) : name[k] = DOT }
    IN  IF dots = {} THEN name ELSE SubSeq(name, Max(dots) + 1, Len(name))

AcceptedSuffixes ==
    { <<"j", "p", "g">>, <<"j", "p", "e", "g">>, <<"p", "n", "g">>, <<"p", "d", "f">> }

Rejected == route = "ocr" /\ file.present
            /\ ToLowerCase(Suffix(file.originalname)) \notin AcceptedSuffixes

\* C1: an upload whose lowercased suffix after the last dot is not jpg, jpeg, png
\* or pdf is answered 400, and no request is ever sent to the OCR service for it.
C1_UnsupportedRejected ==
    Rejected =>
        /\ pc = "done"
        /\ Len(responses) = 1 /\ responses[1].status = 400
        /\ ocrCalls = <<>>

\* a rejected name of three parts whose first part is a supported extension
C1_Witness ==
    /\ Rejected
    /\ Len(Split(file.originalname, DOT)) = 3
    /\ Split(file.originalname, DOT)[1] = PDF
    /\ Split(file.originalname, DOT)[2] = PDF
    /\ responses[1].status = 400

Polls == { k \in 1..Len(ocrCalls) : ocrCalls[k].method = "GET" }
Posts == { k \in 1..Len(ocrCalls) : ocrCalls[k].method = "POST" }
LastCall == ocrCalls[Len(ocrCalls)]

\* C2: polls come only after a submission that returned a job location, there
\* are at most 15 of them, none follows a poll that returned a terminal status,
\* and the first terminal status decides: succeeded returns the text, failed
\* raises the processing error, 15 polls without one raise the timeout error.
C2_PollProtocol ==
    /\ Polls # {} =>
          /\ ocrCalls[1].method = "POST" /\ ocrCalls[1].status = "accepted"
          /\ \A k \in Polls : k > 1
    /\ Cardinality(Polls) <= 15
    /\ \A k \in Polls : k < Len(ocrCalls) => ocrCalls[k].status = "running"
    /\ Polls # {} /\ LastCall.status = "succeeded" =>
          ocrOutcome = Returned(Join(Flatten(LastCall.pages), <<NL>>))
    /\ Polls # {} /\ LastCall.status = "failed" =>
          ocrOutcome = Threw(Error("Azure OCR failed"))
    /\ Cardinality(Polls) = 15 /\ LastCall.status = "running" =>
          ocrOutcome = Threw(Error("OCR timeout"))
    /\ ocrOutcome.kind = "text" =>
          Polls # {} /\ LastCall.status = "succeeded"
    /\ ocrOutcome = Threw(Error("OCR timeout")) =>
          Cardinality(Polls) = 15 /\ \A k \in Polls : ocrCalls[k].status = "running"
    /\ Polls # {} /\ LastCall.status = "running" /\ Cardinality(Polls) < 15 =>
          pc = "poll" /\ ocrOutcome = NotRun

\* fifteen polls, none terminal, and the timeout
C2_Witness ==
    /\ Cardinality(Polls) = 15
    /\ \A k \in Polls : ocrCalls[k].status = "running"
    /\ ocrOutcome = Threw(Error("OCR timeout"))
    /\ pc = "done"

PdfDone == route = "ocr" /\ ext = PDF /\ pc = "done" /\ inPdfTry

HasInk(text) == \E k \in 1..Len(text) : ~IsSpace(text[k])

\* C3 as stated: a PDF with a non-empty text layer whose OCR call fails is
\* answered with success and the deduplicated text layer.
C3_NonEmptyLayerSurvivesOcrFailure ==
    PdfDone /\ textLayer # <<>> /\ ocrOutcome.kind = "throw" =>
        responses = <<TextResponse(Dedup(textLayer))>>

\* C3 as amended: a PDF whose text layer holds a character that is not white
\* space and whose OCR call fails is answered with success and the deduplicated
\* text layer.
C3_InkedLayerSurvivesOcrFailure ==
    PdfDone /\ HasInk(textLayer) /\ ocrOutcome.kind = "throw" =>
        responses = <<TextResponse(Dedup(textLayer))>>

\* a PDF with text whose OCR job reported failed, answered 200
C3_Witness ==
    /\ PdfDone /\ HasInk(textLayer) /\ Len(textLayer) = 2
    /\ ocrOutcome = Threw(Error("Azure OCR failed"))
    /\ responses[1].status = 200

FirstIndex(seq, x) == Min({ k \in 1..Len(seq) : seq[k] = x })

Deduplicated == PdfDone /\ Len(responses) = 1 /\ responses[1].status = 200

\* C4: the lines of the deduplicated text hold no blank line and no line twice,
\* every non-blank input line is among them, and they stand in the order of
\* their first occurrence in the input.
C4_DedupLines ==
    Deduplicated =>
        LET inp == Split(dedupInput, NL)
            out == Split(responses[1].text, NL)
        IN  /\ \A k \in 1..Len(out) : HasInk(out[k])
            /\ \A j, k \in 1..Len(out) : j # k => out[j] # out[k]
            /\ \A k \in 1..Len(inp) :
                  HasInk(inp[k]) => \E j \in 1..Len(out) : out[j] = inp[k]
            /\ \A k \in 1..Len(out) : \E j \in 1..Len(inp) : inp[j] = out[k]
            /\ \A j, k \in 1..Len(out) :
                  j < k => FirstIndex(inp, out[j]) < FirstIndex(inp, out[k])

\* a text layer line repeated by the OCR result, which adds a line of its own
C4_Witness ==
    /\ Deduplicated
    /\ textLayer = <<"a", NL>>
    /\ dedupInput = <<"a", NL, NL, NL, "a", NL, "b">>
    /\ responses[1].text = <<"a", NL, "b">>


\* C5: in every grading result returned with success, the total score and each
\* breakdown score lie within [0, max_score] of the request.
C5_ScoresWithinMax ==
    route = "essay" /\ Len(responses) = 1 /\ responses[1].status = 200 =>
        LET result == responses[1].result
            max_score == OrDefault(body.max_score, JNum(DefaultMaxScore)).n
            Within(v) == v.t = "number" /\ 0 <= v.n /\ v.n <= max_score
            breakdown == Get(result, BREAKDOWN)
        IN  /\ Within(Get(result, SCORE))
            /\ \A k \in 1..Len(breakdown.o) : Within(Get(breakdown.o[k].v, SCORE))

Missing(v) == v.t \in {"undefined", "null"}

Blank(v) == v.t = "string" /\ ~HasInk(v.s)

\* C6: a grading request whose question is missing, whose answer is missing or
\* whose answer is blank is answered 400, and the text-generation service is
\* never called for it.
C6_InvalidRequestRejected ==
    route = "essay" /\ (Missing(body.question) \/ Missing(body.answer)
                        \/ Blank(body.answer)) =>
        /\ pc = "done"
        /\ Len(responses) = 1 /\ responses[1].status = 400
        /\ llmCalls = <<>>

\* a question with an answer of white space alone
C6_Witness ==
    /\ route = "essay"
    /\ body.question = JStr(<<"q">>)
    /\ body.answer = JStr(<<NL, SP>>)
    /\ responses = <<ErrorResponse(400, "Answer cannot be empty.", NoText)>>
    /\ llmCalls = <<>>

Replied == route = "essay" /\ pc = "done" /\ llmCalls # <<>>
           /\ llmCalls[1].status = "replied"

\* C7: when the reply is a JSON payload inside a fenced code block, the
\* handler's parsed result is the result of parsing the payload itself.
C7_FenceStrippingPreservesPayload ==
    Replied /\ llmCalls[1].wrapper \in FenceWrappers
            /\ ParseJSON(llmCalls[1].payload).ok =>
        gradingResult = [ok |-> TRUE, v |-> ParseJSON(llmCalls[1].payload).v]

ParseFailure(details) ==
    [status |-> 500, error |-> "Failed to parse AI response.",
     details |-> [lit |-> "", txt |-> details],
     text |-> <<>>, result |-> JUndefined]

\* C8 as stated: a reply that is not valid JSON is answered with the 500 parse
\* failure, whose details are the raw text of the reply.
C8_InvalidReplyAttachesRawText ==
    Replied /\ ~ParseJSON(llmCalls[1].content).ok =>
        responses = <<ParseFailure(llmCalls[1].content)>>

\* C8 as amended: a reply that is not valid JSON once it is trimmed and its
\* fence markers are removed is answered with the 500 parse failure, whose
\* details are that trimmed and stripped text.
C8_InvalidCleanedReplyAttachesCleanedText ==
    Replied /\ ~ParseJSON(Clean(llmCalls[1].content)).ok =>
        responses = <<ParseFailure(Clean(llmCalls[1].content))>>

\* a fenced reply that is no JSON inside its fence
C8_Witness ==
    /\ Replied
    /\ llmCalls[1].wrapper = "fence json"
    /\ llmCalls[1].payload = <<"n", "o">>
    /\ responses = <<ParseFailure(<<"n", "o">>)>>

\* C9: the OCR submission is sent at most once for a request, the
\* text-generation service is called at most once, and a failed submission or
\* call is the last thing the handler sends.
C9_NoRetry ==
    /\ Cardinality(Posts) <= 1
    /\ Len(llmCalls) <= 1
    /\ \A k \in Posts :
          ocrCalls[k].status # "accepted" => k = Len(ocrCalls) /\ pc = "done"
    /\ \A k \in 1..Len(llmCalls) :
          llmCalls[k].status \in {"threw", "null content"} => pc = "done"

\* a submission that failed in transport, and the request answered
C9_Witness ==
    /\ route = "ocr" /\ pc = "done"
    /\ Len(ocrCalls) = 1
    /\ ocrCalls[1].method = "POST" /\ ocrCalls[1].status = "error"
    /\ Len(responses) = 1

\* C10: a request whose handler has ended has exactly one HTTP response.
C10_ExactlyOneResponse ==
    pc \in {"done", "rejected"} => Len(responses) = 1


====
